---- MODULE Spec2Model ----
(***************************************************************************)
(* The dynamic solve engine of openssa's Agent                             *)
(* (src/openssa/l2/agent/agent.py): the dispatch of Agent.solve over       *)
(* (plan, self.planner, dynamic) and the depth-bounded recursion of        *)
(* Agent.solve_dynamically.                                                *)
(*                                                                         *)
(* The Python call stack is the sequence `stack` of frames; every external *)
(* call (Reasoner.reason, Planner.*, Plan.execute) is one step that either *)
(* returns or raises.  Texts are symbolic terms that record what produced  *)
(* them, so that "the result of X" can be compared.  Lists are heap        *)
(* objects (`lists`) and frames hold references to them, as Python does    *)
(* with sub_results / other_results.                                       *)
(***************************************************************************)
EXTENDS Integers, Sequences, FiniteSets, TLC

\* ---------------------------------------------------------------- bounds
\* largest max_depth of a planner handed to the engine
MaxDepth == 2
\* largest number of sub-plans Planner.plan returns
MaxSubPlans == 3
\* number of solve_dynamically invocations one run may start: Planner.plan
\* returns no more sub-plans than this leaves room for
MaxCalls == 4

\* number of distinct texts add_knowledge is called with
MaxStrings == 4

\* smallest max_depth tried: max_depth is a plain int field, so -1 is an input
MinDepth == 0 - 1

VARIABLES
    entry,          \* which public method the caller invoked
    self_planner,   \* Agent.planner
    plan_arg,       \* solve's `plan` argument
    dynamic,        \* solve's `dynamic` argument
    planner_arg,    \* solve_dynamically's `planner` argument of the top call
    other_arg,      \* solve_dynamically's `other_results` argument of the top call
    stack,          \* call stack, innermost frame last
    tasks,          \* Task objects: id -> [ask, status, result]
    lists,          \* list objects: reference -> sequence of (ask, result) pairs
    log,            \* every call the engine made, in order
    raising,        \* the exception in flight, or None
    outcome,        \* what the top-level caller got
    reasoner,       \* Agent.reasoner
    resources,      \* Agent.resources
    knowledge,      \* Agent.knowledge
    added,          \* the last add_knowledge call: argument, knowledge before, exception
    _backends,      \* BaseAdapter._backends
    answered        \* the last BaseAdapter operation and what it returned

vars == <<entry, self_planner, plan_arg, dynamic, planner_arg, other_arg,
          stack, tasks, lists, log, raising, outcome,
          reasoner, resources, knowledge, added, _backends, answered>>

\* what no step of solve / solve_dynamically assigns: the arguments, the
\* fields of the Agent, and the adapter
inputs == <<entry, self_planner, plan_arg, dynamic, planner_arg, other_arg,
            reasoner, resources, knowledge, added, _backends, answered>>

\* what no step outside solve / solve_dynamically touches
solving == <<entry, self_planner, plan_arg, dynamic, planner_arg, other_arg,
             stack, tasks, lists, log, raising, outcome, reasoner, resources>>

\* ---------------------------------------------------------------- values
None == [kind |-> "None"]

\* a Planner object; truthy is what bool(planner) gives
Planner(d, t) == [kind |-> "Planner", max_depth |-> d, truthy |-> t]

\* a Plan object handed to solve by the caller
GivenPlan(t) == [kind |-> "Plan", id |-> "given", truthy |-> t]

\* Python truth value of an argument: None is false, an object says itself
Truthy(v) == v.kind # "None" /\ v.truthy

\* TaskStatus members the engine names
CREATED == "CREATED"
RESOLVED == "RESOLVED"
NEEDING_DECOMPOSITION == "NEEDING_DECOMPOSITION"
DONE == "DONE"

\* what Reasoner.reason may leave in task.status
ReasonerStatuses == {RESOLVED, NEEDING_DECOMPOSITION}

\* Task(ask=problem, resources=self.resources): status CREATED, no result
NewTask(ask) == [ask |-> ask, status |-> CREATED, result |-> None]

\* the text Reasoner.reason produces for a task
ReasonText(ask) == [kind |-> "Text", by |-> "reason", ask |-> ask]

\* the text Plan.execute synthesizes: a function of the plan, the results its
\* sub-plans' tasks hold, and the other_results it was given
ExecuteText(plan, children, other) ==
    [kind |-> "Text", by |-> "execute", plan |-> plan,
     children |-> children, other |-> other]

\* Planner.one_fewer_level_deep(): same planner, max_depth minus one
one_fewer_level_deep(p) == [p EXCEPT !.max_depth = p.max_depth - 1]

\* Planner.one_level_deep(): same planner, decomposing once
one_level_deep(p) == [p EXCEPT !.max_depth = 1]

\* identities of the objects one run creates
InvTask(path) == [kind |-> "inv", path |-> path]
RootTask(path) == [kind |-> "root", path |-> path]
SubTask(path, i) == [kind |-> "sub", path |-> Append(path, i)]
ListRef(path) == [kind |-> "List", of |-> path]
CallerList == ListRef(<<0>>)

\* the ask the planner writes for sub-plan i of the plan for `problem`
SubAsk(problem, i) == Append(problem, i)

\* the problem text of the top-level call
Problem == <<>>

Put(f, k, v) == [x \in DOMAIN f \cup {k} |-> IF x = k THEN v ELSE f[x]]

\* ---------------------------------------------------------------- frames
\* the frame of Agent.solve
SolveFrame(plan) ==
    [fn |-> "solve", pc |-> "match", path |-> <<>>, problem |-> Problem,
     planner |-> None, other |-> None, sub_planner |-> None,
     sub_results |-> None, plan |-> plan, idx |-> 0]

\* the frame of one Agent.solve_dynamically invocation, at its first line
DynFrame(path, problem, planner, other) ==
    [fn |-> "solve_dynamically", pc |-> "task", path |-> path,
     problem |-> problem, planner |-> planner, other |-> other,
     sub_planner |-> None, sub_results |-> None, plan |-> None, idx |-> 0]

Top == stack[Len(stack)]
SetTop(f) == [stack EXCEPT ![Len(stack)] = f]
Pop == SubSeq(stack, 1, Len(stack) - 1)

Running == raising = None /\ outcome.kind = "running" /\ stack # <<>>
AtSolve(pc) == Running /\ Top.fn = "solve" /\ Top.pc = pc
AtDyn(pc) == Running /\ Top.fn = "solve_dynamically" /\ Top.pc = pc

\* an exception object: what raised it and where
Failure(exc, op, path) == [kind |-> "Exception", exc |-> exc, op |-> op, path |-> path]

\* the content of an other_results argument (None, or the list it refers to)
Deref(ref) == IF ref = None THEN None ELSE lists[ref]

\* the (ask, result) pairs a plan's sub-plan tasks hold, in sub_plans order
ChildResults(plan) ==
    [i \in 1..plan.n |-> <<tasks[SubTask(plan.id, i)].ask, tasks[SubTask(plan.id, i)].result>>]

\* the top-level invocation plus the recursive ones the plans made so far call for
NumPlanned == 1 + Cardinality({t \in DOMAIN tasks : t.kind = "sub"})

\* ---------------------------------------------------------------- inputs
DepthRange == MinDepth..MaxDepth
Planners == {Planner(d, TRUE) : d \in DepthRange}
DynamicValues == {"True", "False", "Other"}

\* the Agent of a solve run: its reasoner, one resource, one known text
TheReasoner == [kind |-> "Reasoner"]
TheResources == {[kind |-> "Resource", unique_name |-> "r"]}
KnownBefore == {1}

\* the sibling context a direct caller of solve_dynamically may pass
CallerPairs == << <<(<<0>>), ReasonText(<<0>>)>> >>

Init ==
    /\ entry \in {"solve", "solve_dynamically"}
    /\ IF entry = "solve"
       THEN /\ self_planner \in {None, Planner(0, FALSE)} \cup Planners
            /\ plan_arg \in {None, GivenPlan(TRUE), GivenPlan(FALSE)}
            /\ dynamic \in DynamicValues
            /\ planner_arg = None
            /\ other_arg = None
            /\ stack = <<SolveFrame(plan_arg)>>
       ELSE /\ self_planner \in {None} \cup Planners
            /\ planner_arg \in {None} \cup Planners
            \* when both are given, the agent's own planner is the deepest one
            /\ self_planner = None \/ planner_arg = None \/ self_planner = Planner(MaxDepth, TRUE)
            /\ other_arg \in {None, CallerList}
            /\ plan_arg = None
            /\ dynamic = "True"
            /\ stack = <<DynFrame(<<>>, Problem, planner_arg, other_arg)>>
    /\ tasks = <<>>
    /\ lists = [r \in {CallerList} |-> CallerPairs]
    /\ log = IF entry = "solve" THEN <<>>
             ELSE <<[op |-> "solve_dynamically", path |-> <<>>, problem |-> Problem,
                     planner |-> planner_arg, other |-> other_arg, from |-> "caller",
                     parent |-> <<>>]>>
    /\ raising = None
    /\ outcome = [kind |-> "running"]
    /\ reasoner = TheReasoner
    /\ resources = TheResources
    /\ knowledge = KnownBefore
    /\ added = None
    /\ _backends = None
    /\ answered = None

\* ---------------------------------------------------------------- Agent.solve
\* a slip in the fifth case: the literal False of its pattern left out
MatchCaseNoFalse(plan, planner, dyn) ==
    IF plan = None /\ planner = None THEN 1
    ELSE IF plan = None /\ dyn = "False" /\ Truthy(planner) THEN 2
    ELSE IF plan = None /\ dyn = "True" /\ Truthy(planner) THEN 3
    ELSE IF planner = None /\ Truthy(plan) THEN 4
    ELSE IF Truthy(plan) /\ Truthy(planner) THEN 5
    ELSE 7

\* a slip in the fourth case: its guard `if plan` left out
MatchCaseNoPlanGuard(plan, planner, dyn) ==
    IF plan = None /\ planner = None THEN 1
    ELSE IF plan = None /\ dyn = "False" /\ Truthy(planner) THEN 2
    ELSE IF plan = None /\ dyn = "True" /\ Truthy(planner) THEN 3
    ELSE IF planner = None THEN 4
    ELSE IF dyn = "False" /\ Truthy(plan) /\ Truthy(planner) THEN 5
    ELSE IF dyn = "True" /\ Truthy(plan) /\ Truthy(planner) THEN 6
    ELSE 7

\* the match statement of solve: the number of the first case whose pattern
\* and guard accept (plan, self.planner, dynamic); literal patterns None,
\* True and False match by identity
MatchCase(plan, planner, dyn) ==
    IF plan = None /\ planner = None THEN 1
    ELSE IF plan = None /\ dyn = "False" /\ Truthy(planner) THEN 2
    ELSE IF plan = None /\ dyn = "True" /\ Truthy(planner) THEN 3
    ELSE IF planner = None /\ Truthy(plan) THEN 4
    ELSE IF dyn = "False" /\ Truthy(plan) /\ Truthy(planner) THEN 5
    ELSE IF dyn = "True" /\ Truthy(plan) /\ Truthy(planner) THEN 6
    ELSE 7

Matched(n) == AtSolve("match") /\ MatchCase(Top.plan, self_planner, dynamic) = n

\* a raise inside the top frame
Raise(f) == raising' = f /\ UNCHANGED <<stack, outcome>>

\* solve's `return result`
SolveReturn(text) ==
    /\ stack' = <<>>
    /\ outcome' = [kind |-> "returned", value |-> text]
    /\ UNCHANGED raising

\* case (None, None, _): Reasoner.reason on a fresh Task
SolveReasonDirect ==
    /\ Matched(1)
    /\ tasks' = Put(tasks, InvTask(<<>>), NewTask(Top.problem))
    /\ \E ok \in BOOLEAN :
        /\ log' = Append(log, [op |-> "reason", task |-> InvTask(<<>>), ask |-> Top.problem,
                               before |-> CREATED, path |-> <<>>, ok |-> ok])
        /\ IF ok THEN SolveReturn(ReasonText(Top.problem))
                 ELSE Raise(Failure("UpstreamFailure", "reason", <<>>))
    /\ UNCHANGED <<inputs, lists>>

\* case (None, _, False) if self.planner: self.planner.plan(...)
SolveAutoStatic ==
    /\ Matched(2)
    /\ \E ok \in BOOLEAN :
        /\ log' = Append(log, [op |-> "plan", planner |-> self_planner, via |-> "self.planner",
                               problem |-> Top.problem, path |-> <<>>, ok |-> ok])
        /\ IF ok THEN /\ stack' = SetTop([Top EXCEPT !.pc = "execute",
                                          !.plan = [kind |-> "Plan", id |-> "planned", truthy |-> TRUE]])
                      /\ UNCHANGED <<raising, outcome>>
                 ELSE Raise(Failure("UpstreamFailure", "plan", <<>>))
    /\ UNCHANGED <<inputs, tasks, lists>>

\* case (None, _, True) if self.planner: self.solve_dynamically(problem=problem)
SolveAutoDynamic ==
    /\ Matched(3)
    /\ stack' = Append(SetTop([Top EXCEPT !.pc = "await"]),
                       DynFrame(<<>>, Top.problem, None, None))
    /\ log' = Append(log, [op |-> "solve_dynamically", path |-> <<>>, problem |-> Top.problem,
                           planner |-> None, other |-> None, from |-> "solve",
                           parent |-> <<>>])
    /\ UNCHANGED <<inputs, tasks, lists, raising, outcome>>

\* case (_, None, _) if plan: the given plan is executed as it is
SolveGivenStatic ==
    /\ Matched(4)
    /\ stack' = SetTop([Top EXCEPT !.pc = "execute"])
    /\ UNCHANGED <<inputs, tasks, lists, log, raising, outcome>>

\* case (_, _, False) if (plan and self.planner): update_plan_resources
SolveUpdateStatic ==
    /\ Matched(5)
    /\ \E ok \in BOOLEAN :
        /\ log' = Append(log, [op |-> "update_plan_resources", planner |-> self_planner,
                               plan |-> Top.plan, path |-> <<>>, ok |-> ok])
        /\ IF ok THEN /\ stack' = SetTop([Top EXCEPT !.pc = "execute",
                                          !.plan = [kind |-> "Plan", id |-> "updated", truthy |-> TRUE]])
                      /\ UNCHANGED <<raising, outcome>>
                 ELSE Raise(Failure("UpstreamFailure", "update_plan_resources", <<>>))
    /\ UNCHANGED <<inputs, tasks, lists>>

\* case (_, _, True) if (plan and self.planner): raise NotImplementedError
SolveNotImplemented ==
    /\ Matched(6)
    /\ Raise(Failure("NotImplementedError", "solve", <<>>))
    /\ UNCHANGED <<inputs, tasks, lists, log>>

\* case _: raise ValueError
SolveInvalid ==
    /\ Matched(7)
    /\ Raise(Failure("ValueError", "solve", <<>>))
    /\ UNCHANGED <<inputs, tasks, lists, log>>

\* plan.execute(reasoner=self.reasoner, knowledge=self.knowledge); return result
SolveExecute ==
    /\ AtSolve("execute")
    /\ \E ok \in BOOLEAN :
        /\ log' = Append(log, [op |-> "execute", plan |-> Top.plan, other |-> None,
                               path |-> <<>>, ok |-> ok])
        /\ IF ok THEN SolveReturn(ExecuteText(Top.plan, <<>>, None))
                 ELSE Raise(Failure("UpstreamFailure", "execute", <<>>))
    /\ UNCHANGED <<inputs, tasks, lists>>

\* ---------------------------------------------------------------- Agent.solve_dynamically
\* `planner or self.planner`: the override when it is truthy, else the agent's
ActivePlanner(f) == IF Truthy(f.planner) THEN f.planner ELSE self_planner

\* a slip: every task that is not DONE yet is decomposed
NeedsDecompositionUnlessDone(task) == task.status # DONE

\* the first operand of the `and`: task.status == TaskStatus.NEEDING_DECOMPOSITION
NeedsDecomposition(task) == task.status = NEEDING_DECOMPOSITION

\* a slip: the depth tested for "not negative" instead of "not zero"
DepthAllowsNonNegative(p) == p.max_depth >= 0

\* the second operand of the `and`: `.max_depth` as a truth value
DepthAllows(p) == p.max_depth # 0

\* slips: the assignment of TaskStatus.DONE left out
SynthesizedNoStatus(task, text) == [task EXCEPT !.result = text]
ResolvedNoStatus(sub_task, value) == [sub_task EXCEPT !.result = value]

\* the task after `task.result = plan_1_level_deep.execute(...)` and
\* `task.status = TaskStatus.DONE`
Synthesized(task, text) == [task EXCEPT !.result = text, !.status = DONE]

\* the sub-plan's task after `sub_task.result = self.solve_dynamically(...)`
\* and `sub_task.status = TaskStatus.DONE`
Resolved(sub_task, value) == [sub_task EXCEPT !.result = value, !.status = DONE]

\* slips: the caller's own planner, or its own sibling context, handed down
ChildPlannerSame(f) == f.planner
ChildOtherEnclosing(f) == f.other

\* the planner and the other_results handed to the recursive call of a sub-plan
ChildPlanner(f) == f.sub_planner
ChildOther(f) == f.sub_results

\* a slip: the invocation's own sub_results handed to execute
ExecuteOtherOwnChildren(f) == f.sub_results

\* the other_results handed to plan_1_level_deep.execute
ExecuteOther(f) == f.other

\* task := Task(ask=problem, resources=self.resources)
CreateTask ==
    /\ AtDyn("task")
    /\ tasks' = Put(tasks, InvTask(Top.path), NewTask(Top.problem))
    /\ stack' = SetTop([Top EXCEPT !.pc = "reason"])
    /\ UNCHANGED <<inputs, lists, log, raising, outcome>>

\* a slip: the Reasoner asked once more when it wants decomposition
ReasonAgain ==
    /\ AtDyn("reason")
    /\ LET t == InvTask(Top.path) IN
       \E st \in ReasonerStatuses \cup {"raise"} :
        /\ log' = Append(log, [op |-> "reason", task |-> t, ask |-> tasks[t].ask,
                               before |-> tasks[t].status, path |-> Top.path,
                               ok |-> st # "raise"])
        /\ IF st # "raise"
           THEN /\ tasks' = [tasks EXCEPT ![t].status = st,
                                           ![t].result = ReasonText(tasks[t].ask)]
                /\ stack' = SetTop([Top EXCEPT !.pc =
                                     IF st = NEEDING_DECOMPOSITION /\ tasks[t].status = CREATED
                                     THEN "reason" ELSE "test"])
                /\ UNCHANGED <<raising, outcome>>
           ELSE /\ Raise(Failure("UpstreamFailure", "reason", Top.path))
                /\ UNCHANGED tasks
    /\ UNCHANGED <<inputs, lists>>

\* self.reasoner.reason(task, knowledge=self.knowledge): the Reasoner sets
\* task.status and task.result, or raises
Reason ==
    /\ AtDyn("reason")
    /\ LET t == InvTask(Top.path) IN
       \E st \in ReasonerStatuses \cup {"raise"} :
        /\ log' = Append(log, [op |-> "reason", task |-> t, ask |-> tasks[t].ask,
                               before |-> tasks[t].status, path |-> Top.path,
                               ok |-> st # "raise"])
        /\ IF st # "raise"
           THEN /\ tasks' = [tasks EXCEPT ![t].status = st,
                                           ![t].result = ReasonText(tasks[t].ask)]
                /\ stack' = SetTop([Top EXCEPT !.pc = "test"])
                /\ UNCHANGED <<raising, outcome>>
           ELSE /\ Raise(Failure("UpstreamFailure", "reason", Top.path))
                /\ UNCHANGED tasks
    /\ UNCHANGED <<inputs, lists>>

\* a slip: the operands of the `and` in the other order, so that the
\* planner's max_depth is read before the status is looked at
TestDepthFirst ==
    /\ AtDyn("test")
    /\ LET p == ActivePlanner(Top) IN
       /\ log' = Append(log, [op |-> "max_depth", planner |-> p, path |-> Top.path,
                              ok |-> p # None])
       /\ IF p = None
          THEN Raise(Failure("AttributeError", "max_depth", Top.path))
          ELSE /\ stack' = SetTop([Top EXCEPT !.planner = p,
                                   !.pc = IF DepthAllows(p)
                                             /\ NeedsDecomposition(tasks[InvTask(Top.path)])
                                          THEN "decompose" ELSE "return"])
               /\ UNCHANGED <<raising, outcome>>
    /\ UNCHANGED <<inputs, tasks, lists>>

\* a slip: the planner chosen at line 152 stored on the Agent instead of in
\* the local variable
TestStoresPlannerOnAgent ==
    /\ AtDyn("test")
    /\ IF ~NeedsDecomposition(tasks[InvTask(Top.path)])
       THEN /\ stack' = SetTop([Top EXCEPT !.pc = "return"])
            /\ UNCHANGED <<log, raising, outcome, self_planner>>
       ELSE LET p == ActivePlanner(Top) IN
            /\ log' = Append(log, [op |-> "max_depth", planner |-> p, path |-> Top.path,
                                   ok |-> p # None])
            /\ self_planner' = p
            /\ IF p = None
               THEN Raise(Failure("AttributeError", "max_depth", Top.path))
               ELSE /\ stack' = SetTop([Top EXCEPT !.planner = p,
                                        !.pc = IF DepthAllows(p) THEN "decompose" ELSE "return"])
                    /\ UNCHANGED <<raising, outcome>>
    /\ UNCHANGED <<entry, plan_arg, dynamic, planner_arg, other_arg, reasoner, resources,
                   knowledge, added, _backends, answered, tasks, lists>>

\* a slip: a missing planner taken for a planner without depth left
TestMissingPlannerIsDepthZero ==
    /\ AtDyn("test")
    /\ IF ~NeedsDecomposition(tasks[InvTask(Top.path)])
       THEN /\ stack' = SetTop([Top EXCEPT !.pc = "return"])
            /\ UNCHANGED <<log, raising, outcome>>
       ELSE LET p == ActivePlanner(Top) IN
            /\ log' = Append(log, [op |-> "max_depth", planner |-> p, path |-> Top.path,
                                   ok |-> TRUE])
            /\ stack' = SetTop([Top EXCEPT !.planner = p,
                                !.pc = IF p # None /\ DepthAllows(p)
                                       THEN "decompose" ELSE "return"])
            /\ UNCHANGED <<raising, outcome>>
    /\ UNCHANGED <<inputs, tasks, lists>>

\* if (task.status == NEEDING_DECOMPOSITION) and (planner := planner or self.planner).max_depth
Test ==
    /\ AtDyn("test")
    /\ IF ~NeedsDecomposition(tasks[InvTask(Top.path)])
       THEN /\ stack' = SetTop([Top EXCEPT !.pc = "return"])
            /\ UNCHANGED <<log, raising, outcome>>
       ELSE LET p == ActivePlanner(Top) IN
            /\ log' = Append(log, [op |-> "max_depth", planner |-> p, path |-> Top.path,
                                   ok |-> p # None])
            /\ IF p = None
               THEN Raise(Failure("AttributeError", "max_depth", Top.path))
               ELSE /\ stack' = SetTop([Top EXCEPT !.planner = p,
                                        !.pc = IF DepthAllows(p) THEN "decompose" ELSE "return"])
                    /\ UNCHANGED <<raising, outcome>>
    /\ UNCHANGED <<inputs, tasks, lists>>

\* sub_planner = planner.one_fewer_level_deep(); sub_results = []
Decompose ==
    /\ AtDyn("decompose")
    /\ \E ok \in BOOLEAN :
        /\ log' = Append(log, [op |-> "one_fewer_level_deep", planner |-> Top.planner,
                               path |-> Top.path, ok |-> ok])
        /\ IF ok
           THEN /\ stack' = SetTop([Top EXCEPT !.sub_planner = one_fewer_level_deep(Top.planner),
                                    !.sub_results = ListRef(Top.path), !.pc = "plan"])
                /\ lists' = Put(lists, ListRef(Top.path), <<>>)
                /\ UNCHANGED <<raising, outcome>>
           ELSE /\ Raise(Failure("UpstreamFailure", "one_fewer_level_deep", Top.path))
                /\ UNCHANGED lists
    /\ UNCHANGED <<inputs, tasks>>

\* plan_1_level_deep := planner.one_level_deep().plan(problem=problem, resources=self.resources)
PlanOneLevel ==
    /\ AtDyn("plan")
    /\ \E n \in (0..MaxSubPlans) \cup {0 - 1} :
        /\ n >= 0 => NumPlanned + n <= MaxCalls
        /\ log' = Append(log, [op |-> "plan", planner |-> one_level_deep(Top.planner),
                               via |-> "one_level_deep", problem |-> Top.problem,
                               path |-> Top.path, ok |-> n >= 0])
        /\ IF n >= 0
           THEN /\ stack' = SetTop([Top EXCEPT !.pc = "loop", !.idx = 0,
                                    !.plan = [kind |-> "Plan", id |-> Top.path,
                                              truthy |-> TRUE, n |-> n]])
                /\ tasks' = [t \in DOMAIN tasks \cup {RootTask(Top.path)}
                                   \cup {SubTask(Top.path, i) : i \in 1..n} |->
                             IF t \in DOMAIN tasks THEN tasks[t]
                             ELSE IF t.kind = "root" THEN NewTask(Top.problem)
                             ELSE NewTask(SubAsk(Top.problem, t.path[Len(t.path)]))]
                /\ UNCHANGED <<raising, outcome>>
           ELSE /\ Raise(Failure("UpstreamFailure", "plan", Top.path))
                /\ UNCHANGED tasks
    /\ UNCHANGED <<inputs, lists>>

\* the loop body's call: self.solve_dynamically(problem=sub_task.ask,
\*                          planner=sub_planner, other_results=sub_results)
CallSub ==
    /\ AtDyn("loop")
    /\ Top.idx < Top.plan.n
    /\ LET sub_task == tasks[SubTask(Top.path, Top.idx + 1)]
           child == DynFrame(Append(Top.path, Top.idx + 1), sub_task.ask,
                             ChildPlanner(Top), ChildOther(Top))
       IN /\ stack' = Append(SetTop([Top EXCEPT !.pc = "await"]), child)
          /\ log' = Append(log, [op |-> "solve_dynamically", path |-> child.path,
                                 problem |-> child.problem, planner |-> child.planner,
                                 other |-> child.other, from |-> "solve_dynamically",
                                 parent |-> Top.path])
    /\ UNCHANGED <<inputs, tasks, lists, raising, outcome>>

\* a slip: the plan executed one sub-plan early
ExecuteBeforeLast ==
    /\ AtDyn("loop")
    /\ Top.idx >= Top.plan.n - 1
    /\ LET t == InvTask(Top.path) IN
       \E ok \in BOOLEAN :
        /\ log' = Append(log, [op |-> "execute", plan |-> Top.plan,
                               other |-> Deref(ExecuteOther(Top)),
                               children |-> ChildResults(Top.plan),
                               path |-> Top.path, ok |-> ok])
        /\ IF ok
           THEN /\ tasks' = [tasks EXCEPT ![t] =
                               Synthesized(@, ExecuteText(Top.plan, ChildResults(Top.plan),
                                                          Deref(ExecuteOther(Top))))]
                /\ stack' = SetTop([Top EXCEPT !.pc = "return"])
                /\ UNCHANGED <<raising, outcome>>
           ELSE /\ Raise(Failure("UpstreamFailure", "execute", Top.path))
                /\ UNCHANGED tasks
    /\ UNCHANGED <<inputs, lists>>

\* task.result = plan_1_level_deep.execute(reasoner, other_results=other_results, knowledge)
\* task.status = DONE
Execute ==
    /\ AtDyn("loop")
    /\ Top.idx = Top.plan.n
    /\ LET t == InvTask(Top.path) IN
       \E ok \in BOOLEAN :
        /\ log' = Append(log, [op |-> "execute", plan |-> Top.plan,
                               other |-> Deref(ExecuteOther(Top)),
                               children |-> ChildResults(Top.plan),
                               path |-> Top.path, ok |-> ok])
        /\ IF ok
           THEN /\ tasks' = [tasks EXCEPT ![t] =
                               Synthesized(@, ExecuteText(Top.plan, ChildResults(Top.plan),
                                                          Deref(ExecuteOther(Top))))]
                /\ stack' = SetTop([Top EXCEPT !.pc = "return"])
                /\ UNCHANGED <<raising, outcome>>
           ELSE /\ Raise(Failure("UpstreamFailure", "execute", Top.path))
                /\ UNCHANGED tasks
    /\ UNCHANGED <<inputs, lists>>

\* `return task.result`, and what the caller does with the value:
\*   the top-level caller receives it; solve returns it;
\*   the loop of the enclosing invocation stores it in sub_task.result, sets
\*   sub_task.status = DONE and appends (sub_task.ask, sub_task.result)
Return ==
    /\ AtDyn("return")
    /\ LET t == InvTask(Top.path)
           value == tasks[t].result
           read == [op |-> "return", path |-> Top.path, task |-> t,
                    status |-> tasks[t].status, value |-> value]
       IN IF Len(stack) = 1 \/ stack[Len(stack) - 1].fn = "solve"
          THEN /\ stack' = <<>>
               /\ outcome' = [kind |-> "returned", value |-> value]
               /\ log' = Append(log, read)
               /\ UNCHANGED <<tasks, lists>>
          ELSE LET parent == stack[Len(stack) - 1]
                   s == SubTask(parent.path, parent.idx + 1)
               IN /\ tasks' = [tasks EXCEPT ![s] = Resolved(@, value)]
                  /\ lists' = [lists EXCEPT ![parent.sub_results] =
                                   Append(@, <<tasks'[s].ask, tasks'[s].result>>)]
                  /\ stack' = [Pop EXCEPT ![Len(stack) - 1] =
                                   [parent EXCEPT !.pc = "loop", !.idx = parent.idx + 1]]
                  /\ log' = log \o <<read, [op |-> "read_result", task |-> s,
                                             status |-> tasks'[s].status,
                                             value |-> tasks'[s].result, path |-> parent.path]>>
                  /\ UNCHANGED outcome
    /\ UNCHANGED <<inputs, raising>>

\* a slip: the loop catches what a recursive call raises and goes on to the
\* next sub-plan
PropagateCaughtInLoop ==
    /\ raising # None
    /\ stack # <<>>
    /\ IF Len(stack) > 1 /\ stack[Len(stack) - 1].pc = "await"
          /\ stack[Len(stack) - 1].fn = "solve_dynamically"
       THEN /\ stack' = [Pop EXCEPT ![Len(stack) - 1] =
                            [@ EXCEPT !.pc = "loop", !.idx = @ + 1]]
            /\ raising' = None
            /\ UNCHANGED outcome
       ELSE /\ stack' = Pop
            /\ IF Len(stack) = 1
               THEN outcome' = [kind |-> "raised", error |-> raising] /\ raising' = None
               ELSE UNCHANGED <<outcome, raising>>
    /\ UNCHANGED <<inputs, tasks, lists, log>>

\* no frame of the engine has a handler: the exception leaves the innermost
\* frame, and the caller gets it when the last frame is gone
Propagate ==
    /\ raising # None
    /\ stack # <<>>
    /\ stack' = Pop
    /\ IF Len(stack) = 1
       THEN outcome' = [kind |-> "raised", error |-> raising] /\ raising' = None
       ELSE UNCHANGED <<outcome, raising>>
    /\ UNCHANGED <<inputs, tasks, lists, log>>

Next ==
    \/ SolveReasonDirect
    \/ SolveAutoStatic
    \/ SolveAutoDynamic
    \/ SolveGivenStatic
    \/ SolveUpdateStatic
    \/ SolveNotImplemented
    \/ SolveInvalid
    \/ SolveExecute
    \/ CreateTask
    \/ Reason
    \/ Test
    \/ Decompose
    \/ PlanOneLevel
    \/ CallSub
    \/ Execute
    \/ Return
    \/ Propagate

Spec == Init /\ [][Next]_vars

\* ---------------------------------------------------------------- Agent.add_knowledge
\* texts, named by number
Strings == 1..MaxStrings

\* arguments of add_knowledge: a str, a set of str, or something else (an int)
StrArg(x) == [kind |-> "str", val |-> x]
SetArg(xs) == [kind |-> "set", val |-> xs]
OtherArg == [kind |-> "int", val |-> 0]
KnowledgeArgs == {StrArg(x) : x \in Strings} \cup {SetArg(xs) : xs \in SUBSET Strings}
                 \cup {OtherArg}

\* a slip: the knowledge set rebuilt from the new text instead of extended
add_knowledgeReplacing(K, x) ==
    IF x.kind = "str"
    THEN [knowledge |-> {x.val}, exc |-> None]
    ELSE [knowledge |-> K, exc |-> Failure("TypeError", "isinstance", <<>>)]

\* add_knowledge(new_knowledge) on knowledge set K: the set afterwards and
\* the exception raised.  A str is added.  For anything else the elif
\* evaluates isinstance(new_knowledge, set[str]); set[str] is a
\* parameterized generic, which isinstance rejects with TypeError, so
\* neither the update of the elif nor the ValueError of the else is reached.
add_knowledge(K, x) ==
    IF x.kind = "str"
    THEN [knowledge |-> K \cup {x.val}, exc |-> None]
    ELSE [knowledge |-> K, exc |-> Failure("TypeError", "isinstance", <<>>)]

\* one call of Agent.add_knowledge
AddKnowledge ==
    /\ entry = "add_knowledge"
    /\ \E x \in KnowledgeArgs :
         /\ knowledge' = add_knowledge(knowledge, x).knowledge
         /\ added' = [arg |-> x, before |-> knowledge,
                      exc |-> add_knowledge(knowledge, x).exc]
    /\ UNCHANGED <<solving, _backends, answered>>

\* an Agent between solve calls
InitKnowledge ==
    /\ entry = "add_knowledge"
    /\ self_planner = None /\ plan_arg = None /\ dynamic = "True"
    /\ planner_arg = None /\ other_arg = None
    /\ stack = <<>> /\ tasks = <<>> /\ lists = <<>> /\ log = <<>>
    /\ raising = None
    /\ outcome = [kind |-> "running"]
    /\ reasoner = TheReasoner
    /\ resources = TheResources
    /\ knowledge \in SUBSET Strings
    /\ added = None
    /\ _backends = None
    /\ answered = None

NextKnowledge == AddKnowledge

SpecKnowledge == InitKnowledge /\ [][NextKnowledge]_vars

\* ================================================================ BaseAdapter
\* the longest backends list
MaxBackends == 3

\* a Python list object
List(items) == [kind |-> "list", items |-> items]

\* backends: the TextBackend the getter creates, one that answers a query,
\* one whose query returns None
DefaultBackend == [kind |-> "TextBackend", answers |-> TRUE]
LoudBackend == [kind |-> "Backend", answers |-> TRUE]
QuietBackend == [kind |-> "Backend", answers |-> FALSE]
GivenBackends == {LoudBackend, QuietBackend, None}
BackendLists == {List(q) : q \in UNION {[1..n -> GivenBackends] : n \in 0..MaxBackends}}
UserInputs == {1, 2}
ListOps == {"facts", "inferencers", "heuristics",
            "select_facts", "select_inferencers", "select_heuristics"}

\* what backend b returns for query(user_input, conversation_id)
BackendQuery(b, user_input) ==
    IF b.answers THEN List(<<[kind |-> "response", by |-> b, to |-> user_input]>>) ELSE None

\* what backend b returns for list_facts(), select_facts(criteria), ...
BackendListing(op, b) == [kind |-> "listing", op |-> op, of |-> b]

\* a slip: the default created only for a missing list, not for an empty one
backendsOnlyWhenMissing(stored) ==
    IF stored = None
    THEN [stored |-> List(<<DefaultBackend>>), value |-> List(<<DefaultBackend>>)]
    ELSE [stored |-> stored, value |-> stored]

\* the backends getter: the value read, and self._backends after the read
backends(stored) ==
    IF stored = None \/ Len(stored.items) = 0
    THEN [stored |-> List(<<DefaultBackend>>), value |-> List(<<DefaultBackend>>)]
    ELSE [stored |-> stored, value |-> stored]

RECURSIVE Flatten(_)
Flatten(ss) == IF ss = <<>> THEN <<>> ELSE Head(ss) \o Flatten(Tail(ss))

\* [r for b in self.backends if b is not None for r in (b.query(...) or [])]
query(bs, user_input) ==
    List(Flatten([i \in 1..Len(bs.items) |->
                    LET r == BackendQuery(bs.items[i], user_input) IN
                    IF bs.items[i] = None THEN <<>>
                    ELSE IF r = None \/ Len(r.items) = 0 THEN <<>>
                    ELSE r.items]))

\* enumerate_backends(lambda backend: backend.<op>(...)): the local results
\* list it builds, the exception of calling a method on a None backend, and
\* the value it returns
enumerate_backends(bs, op) ==
    IF \E i \in 1..Len(bs.items) : bs.items[i] = None
    THEN [results |-> None, exc |-> Failure("AttributeError", op, <<>>), value |-> None]
    ELSE [results |-> List([i \in 1..Len(bs.items) |-> BackendListing(op, bs.items[i])]),
          exc |-> None, value |-> None]

\* x = adapter.backends
ReadBackends ==
    /\ entry = "adapter"
    /\ _backends' = backends(_backends).stored
    /\ answered' = [op |-> "backends", arg |-> None, before |-> _backends,
                    value |-> backends(_backends).value, exc |-> None]
    /\ UNCHANGED <<solving, knowledge, added>>

\* adapter.backends = backends
SetBackends ==
    /\ entry = "adapter"
    /\ \E bs \in BackendLists \cup {None} :
         /\ _backends' = bs
         /\ answered' = [op |-> "backends.setter", arg |-> bs, before |-> _backends,
                         value |-> None, exc |-> None]
    /\ UNCHANGED <<solving, knowledge, added>>

\* adapter.add_backend(backend): self.backends.append(backend)
AddBackend ==
    /\ entry = "adapter"
    /\ Len(backends(_backends).value.items) < MaxBackends
    /\ \E b \in GivenBackends :
         /\ _backends' = List(Append(backends(_backends).value.items, b))
         /\ answered' = [op |-> "add_backend", arg |-> b, before |-> _backends,
                         value |-> None, exc |-> None]
    /\ UNCHANGED <<solving, knowledge, added>>

\* adapter.query(user_input)
Query ==
    /\ entry = "adapter"
    /\ \E u \in UserInputs :
         /\ _backends' = backends(_backends).stored
         /\ answered' = [op |-> "query", arg |-> StrArg(u), before |-> _backends,
                         value |-> query(backends(_backends).value, u), exc |-> None]
    /\ UNCHANGED <<solving, knowledge, added>>

\* adapter.facts, .inferencers, .heuristics, .select_facts(criteria), ...
Enumerate ==
    /\ entry = "adapter"
    /\ \E op \in ListOps :
         LET r == enumerate_backends(backends(_backends).value, op) IN
         /\ _backends' = backends(_backends).stored
         /\ answered' = [op |-> op, arg |-> None, before |-> _backends,
                         value |-> r.value, exc |-> r.exc]
    /\ UNCHANGED <<solving, knowledge, added>>

\* BaseAdapter(backends): any list, or none
InitAdapter ==
    /\ entry = "adapter"
    /\ self_planner = None /\ plan_arg = None /\ dynamic = "True"
    /\ planner_arg = None /\ other_arg = None
    /\ stack = <<>> /\ tasks = <<>> /\ lists = <<>> /\ log = <<>>
    /\ raising = None
    /\ outcome = [kind |-> "running"]
    /\ reasoner = TheReasoner
    /\ resources = TheResources
    /\ knowledge = KnownBefore
    /\ added = None
    /\ _backends \in BackendLists \cup {None}
    /\ answered = None

NextAdapter ==
    \/ ReadBackends
    \/ SetBackends
    \/ AddBackend
    \/ Query
    \/ Enumerate

SpecAdapter == InitAdapter /\ [][NextAdapter]_vars

\* ================================================================ claims
Finished == outcome.kind # "running"
Returned == outcome.kind = "returned"
RaisedExc(exc) == outcome.kind = "raised" /\ outcome.error.exc = exc

\* the rows of the documented dispatch table: an argument is present when it
\* is an ordinary (truthy) object and absent when it is None
Present(v) == v.kind # "None" /\ v.truthy
Absent(v) == v = None
Row ==
    IF Absent(plan_arg) /\ Absent(self_planner) THEN 1
    ELSE IF Absent(plan_arg) /\ Present(self_planner) /\ dynamic = "False" THEN 2
    ELSE IF Absent(plan_arg) /\ Present(self_planner) /\ dynamic = "True" THEN 3
    ELSE IF Present(plan_arg) /\ Absent(self_planner) THEN 4
    ELSE IF Present(plan_arg) /\ Present(self_planner) /\ dynamic = "False" THEN 5
    ELSE IF Present(plan_arg) /\ Present(self_planner) /\ dynamic = "True" THEN 6
    ELSE 0

IsPrefix(a, b) == Len(a) <= Len(b) /\ \A i \in 1..Len(a) : a[i] = b[i]
LogOps == {log[i].op : i \in 1..Len(log)}
EngineOps == {"reason", "plan", "update_plan_resources", "execute", "max_depth",
              "one_fewer_level_deep", "solve_dynamically", "return", "read_result"}

\* the calls each static row makes when nothing raises
DirectRun == <<[op |-> "reason", task |-> InvTask(<<>>), ask |-> Problem,
                before |-> CREATED, path |-> <<>>, ok |-> TRUE]>>
PlannedPlan == [kind |-> "Plan", id |-> "planned", truthy |-> TRUE]
UpdatedPlan == [kind |-> "Plan", id |-> "updated", truthy |-> TRUE]
ExecuteCall(plan) == [op |-> "execute", plan |-> plan, other |-> None, path |-> <<>>, ok |-> TRUE]
AutoStaticRun == <<[op |-> "plan", planner |-> self_planner, via |-> "self.planner",
                    problem |-> Problem, path |-> <<>>, ok |-> TRUE],
                   ExecuteCall(PlannedPlan)>>
GivenStaticRun == <<ExecuteCall(plan_arg)>>
UpdateStaticRun == <<[op |-> "update_plan_resources", planner |-> self_planner,
                      plan |-> plan_arg, path |-> <<>>, ok |-> TRUE],
                     ExecuteCall(UpdatedPlan)>>
DynamicCall == [op |-> "solve_dynamically", path |-> <<>>, problem |-> Problem,
                planner |-> None, other |-> None, from |-> "solve", parent |-> <<>>]

\* the log without the ok flag of its last entry (the call that raised)
SameCalls(a, b) ==
    /\ Len(a) <= Len(b)
    /\ \A i \in 1..Len(a) : [a[i] EXCEPT !.ok = TRUE] = b[i]
    /\ \A i \in 1..(Len(a) - 1) : a[i].ok

\* a static row makes the calls of `run`, in order, and returns `text`
StaticRow(run, text) ==
    /\ SameCalls(log, run)
    /\ Returned => log = run /\ outcome.value = text
    /\ Finished /\ ~Returned => RaisedExc("UpstreamFailure") /\ ~log[Len(log)].ok

\* C1: solve runs exactly the strategy of the dispatch-table row of its
\* (plan, self.planner, dynamic): direct reasoning, plan-and-execute,
\* solve_dynamically, execute the given plan, update-and-execute, or
\* NotImplementedError with no call made.
C1_DispatchTable ==
    entry = "solve" =>
      /\ Row = 1 => /\ StaticRow(DirectRun, ReasonText(Problem))
                    /\ InvTask(<<>>) \in DOMAIN tasks => tasks[InvTask(<<>>)].ask = Problem
      /\ Row = 2 => StaticRow(AutoStaticRun, ExecuteText(PlannedPlan, <<>>, None))
      /\ Row = 3 => /\ log # <<>> => log[1] = DynamicCall
                    /\ LogOps \cap {"update_plan_resources"} = {}
                    /\ \A i \in 1..Len(log) : log[i].op = "plan" => log[i].via = "one_level_deep"
                    /\ Returned => /\ log[Len(log)].op = "return"
                                   /\ log[Len(log)].path = <<>>
                                   /\ outcome.value = log[Len(log)].value
                    /\ Finished /\ ~Returned =>
                          outcome.error.exc \in {"UpstreamFailure"}
      /\ Row = 4 => StaticRow(GivenStaticRun, ExecuteText(plan_arg, <<>>, None))
      /\ Row = 5 => StaticRow(UpdateStaticRun, ExecuteText(UpdatedPlan, <<>>, None))
      /\ Row = 6 => /\ log = <<>>
                    /\ ~Returned
                    /\ Finished => RaisedExc("NotImplementedError")

\* a solve call with a plan, a planner and dynamic=False has returned
C1_Witness ==
    entry = "solve" /\ Row = 5 /\ Returned /\ log = UpdateStaticRun

\* C2: a solve call whose (plan, self.planner, dynamic) is in none of the six
\* rows raises ValueError, and no Reasoner, Planner or Plan.execute call and
\* no Task precedes it.
C2_InvalidConfiguration ==
    entry = "solve" /\ Row = 0 =>
      /\ log = <<>>
      /\ tasks = <<>>
      /\ ~Returned
      /\ Finished => RaisedExc("ValueError")

\* a supplied plan that evaluates as false has been rejected
C2_Witness ==
    /\ entry = "solve" /\ Row = 0 /\ plan_arg = GivenPlan(FALSE)
    /\ RaisedExc("ValueError")

\* ---------------------------------------------------------------- the recursion
Events(ops) == {i \in 1..Len(log) : log[i].op \in ops}
EventsAt(path, ops) == {i \in Events(ops) : log[i].path = path}
Calls == Events({"solve_dynamically"})
CallOf(path) == log[CHOOSE i \in Calls : log[i].path = path]
ChildCalls(path) == {i \in Calls : log[i].from = "solve_dynamically" /\ log[i].parent = path}

\* the planner active in an invocation: the override if given, otherwise the
\* agent's planner
EffectivePlanner(c) == IF c.planner # None THEN c.planner ELSE self_planner
DepthOf(c) == EffectivePlanner(c).max_depth
HasPlanner(c) == EffectivePlanner(c).kind = "Planner"

\* the value invocation `path` returned
ReturnOf(path) == log[CHOOSE i \in EventsAt(path, {"return"}) : TRUE].value

\* C3: an invocation of solve_dynamically whose active planner has
\* max_depth 0 makes one Reasoner.reason call and no Planner.plan,
\* one_fewer_level_deep, Plan.execute or recursive call, and what it returns
\* is the result that reason call left on the task.
C3_DepthZeroNeverDecomposes ==
    \A i \in Calls :
      LET c == log[i] IN
      HasPlanner(c) /\ DepthOf(c) = 0 =>
        /\ EventsAt(c.path, {"one_fewer_level_deep", "plan", "execute"}) = {}
        /\ ChildCalls(c.path) = {}
        /\ Cardinality(EventsAt(c.path, {"reason"})) <= 1
        /\ \A j \in EventsAt(c.path, {"return"}) :
              /\ log[j].value = ReasonText(c.problem)
              /\ \E k \in EventsAt(c.path, {"reason"}) : k < j /\ log[k].ok
              /\ c.from # "solve_dynamically" => outcome = [kind |-> "returned",
                                                            value |-> ReasonText(c.problem)]

\* an invocation with max_depth 0 has returned although the Reasoner asked
\* for decomposition
C3_Witness ==
    \E i \in Calls : /\ HasPlanner(log[i]) /\ DepthOf(log[i]) = 0
                     /\ \E j \in EventsAt(log[i].path, {"return"}) :
                           log[j].status = NEEDING_DECOMPOSITION

\* C4: the planner handed to a recursive call has max_depth one less than
\* the planner active in the calling invocation, all siblings get the same
\* planner, and below the top level every Planner use is a use of the
\* planner handed down.
C4_DepthDecreasesByOne ==
    \A i \in Calls :
      LET c == log[i] IN
      c.from = "solve_dynamically" =>
        /\ c.planner.kind = "Planner"
        /\ c.planner.max_depth = DepthOf(CallOf(c.parent)) - 1
        /\ \A j \in ChildCalls(c.parent) : log[j].planner = c.planner
        /\ \A j \in EventsAt(c.path, {"max_depth", "one_fewer_level_deep"}) :
              log[j].planner = c.planner
        /\ \A j \in EventsAt(c.path, {"plan"}) : log[j].planner = one_level_deep(c.planner)

\* a second-level descent: a grandchild invocation is running with a planner
\* two levels below the top one
C4_Witness ==
    \E i \in Calls : /\ Len(log[i].path) = 2
                     /\ DepthOf(CallOf(<<>>)) > 1
                     /\ log[i].planner.max_depth = DepthOf(CallOf(<<>>)) - 2
                     /\ log[i].planner # self_planner

\* C5: below a top-level solve_dynamically call whose planner has max_depth
\* d, no chain of nested decompositions is longer than d levels, and there
\* is none when d is not greater than 0.
C5_DescentBoundedByDepth ==
    \A i \in Calls :
      HasPlanner(CallOf(<<>>)) =>
        Len(log[i].path) <= (IF DepthOf(CallOf(<<>>)) > 0 THEN DepthOf(CallOf(<<>>)) ELSE 0)

\* C6: while the recursive call for sub-plan i of a decomposing invocation
\* is on the stack, its other_results holds the (ask, result) pairs of
\* sub-plans 1..i-1 of that invocation, in order, and nothing else.
C6_SiblingContext ==
    \A k \in 2..Len(stack) :
      LET f == stack[k]
          parent == stack[k - 1]
      IN parent.fn = "solve_dynamically" =>
           /\ f.other # None
           /\ f.path = Append(parent.path, parent.idx + 1)
           /\ lists[f.other] =
                [j \in 1..parent.idx |->
                   <<SubAsk(parent.problem, j), ReturnOf(Append(parent.path, j))>>]

\* the call for the third sub-plan is running and sees the two earlier pairs
C6_Witness ==
    \E k \in 2..Len(stack) :
      /\ stack[k - 1].fn = "solve_dynamically"
      /\ stack[k].path = Append(stack[k - 1].path, 3)
      /\ stack[k].other # None
      /\ Len(lists[stack[k].other]) = 2
      /\ stack[k].pc = "return"

\* ---------------------------------------------------------------- task status
TopTask == InvTask(<<>>)
TopReturned == EventsAt(<<>>, {"return"}) # {}

\* C7 as stated: after a top-level solve_dynamically call returns, the
\* status of its task is RESOLVED or DONE.
C7_TerminalStatus ==
    TopReturned => tasks[TopTask].status \in {RESOLVED, DONE}

\* C7 amended: after a top-level solve_dynamically call returns, the status
\* of its task is DONE if the call decomposed and otherwise the status the
\* Reasoner set: RESOLVED, or NEEDING_DECOMPOSITION when the active
\* planner's max_depth is 0; it is never CREATED.
C7_TerminalStatusOrDepthExhausted ==
    TopReturned =>
      \/ tasks[TopTask].status = DONE /\ EventsAt(<<>>, {"execute"}) # {}
      \/ tasks[TopTask].status = RESOLVED /\ EventsAt(<<>>, {"execute"}) = {}
      \/ /\ tasks[TopTask].status = NEEDING_DECOMPOSITION
         /\ DepthOf(CallOf(<<>>)) = 0
         /\ EventsAt(<<>>, {"execute"}) = {}

\* a top-level call that decomposed has returned with its task DONE
C7_Witness ==
    TopReturned /\ Returned /\ tasks[TopTask].status = DONE /\ ChildCalls(<<>>) # {}

\* C8 as stated: whenever the engine reads a task's result, the task is
\* RESOLVED or DONE.
C8_ResultReadWhenTerminal ==
    \A j \in Events({"return", "read_result"}) : log[j].status \in {RESOLVED, DONE}

\* C8 amended: the sub-task result appended to the sibling context is read in
\* status DONE; the result solve_dynamically returns is read in status
\* RESOLVED or DONE, or in status NEEDING_DECOMPOSITION when the active
\* planner's max_depth is 0; no result is read in status CREATED.
C8_ResultReadAfterReasoner ==
    /\ \A j \in Events({"read_result"}) : log[j].status = DONE
    /\ \A j \in Events({"return"}) :
          \/ log[j].status \in {RESOLVED, DONE}
          \/ log[j].status = NEEDING_DECOMPOSITION /\ DepthOf(CallOf(log[j].path)) = 0

\* a sub-task's result has been read for the sibling context
C8_Witness ==
    \E j \in Events({"read_result"}) : log[j].status = DONE /\ log[j].value = ReturnOf(log[j].task.path)

Changed(t) == t \in DOMAIN tasks /\ tasks'[t].status # tasks[t].status
Step(t) == <<tasks[t].status, tasks'[t].status>>
LifeCycle == {<<CREATED, RESOLVED>>, <<CREATED, NEEDING_DECOMPOSITION>>,
              <<NEEDING_DECOMPOSITION, DONE>>}

\* C9 as stated: every status change of every task, the sub-plans' tasks
\* included, is CREATED to RESOLVED, CREATED to NEEDING_DECOMPOSITION or
\* NEEDING_DECOMPOSITION to DONE.
C9_StatusLifeCycle ==
    [][\A t \in DOMAIN tasks' : Changed(t) => Step(t) \in LifeCycle]_vars

\* C9 amended: the task an invocation creates changes status only by those
\* three steps; the task carried by a sub-plan goes from CREATED to DONE in
\* one step when its recursive call returns; no task in RESOLVED or DONE
\* changes status again.
C9_StatusLifeCycleWithSubTasks ==
    [][\A t \in DOMAIN tasks' :
         /\ t \notin DOMAIN tasks => tasks'[t].status = CREATED
         /\ Changed(t) =>
              /\ t.kind = "inv" => Step(t) \in LifeCycle
              /\ t.kind = "sub" => Step(t) = <<CREATED, DONE>>
              /\ t.kind = "root" => FALSE
              /\ tasks[t].status \notin {RESOLVED, DONE}]_vars

\* a sub-plan's task is DONE and the task of the invocation that planned it is DONE
C9_Witness ==
    \E t \in DOMAIN tasks :
      /\ t.kind = "sub" /\ tasks[t].status = DONE
      /\ tasks[TopTask].status = DONE

\* ---------------------------------------------------------------- failures
Ok(e) == IF "ok" \in DOMAIN e THEN e.ok ELSE TRUE
FailureOf(e) ==
    Failure(IF e.op = "max_depth" THEN "AttributeError" ELSE "UpstreamFailure", e.op, e.path)

\* C10: once a Reasoner, Planner or Plan.execute call has raised, the engine
\* makes no further call (no later sibling, no execute, no retry), no
\* result is returned, and the exception in flight and the one the caller
\* gets is the one that call raised.
C10_FailurePropagates ==
    /\ \A i \in 1..(Len(log) - 1) : Ok(log[i])
    /\ (log # <<>> /\ ~Ok(log[Len(log)])) =>
          /\ ~Returned
          /\ IF Finished
             THEN outcome = [kind |-> "raised", error |-> FailureOf(log[Len(log)])] /\ stack = <<>>
             ELSE raising = FailureOf(log[Len(log)])
    /\ raising # None /\ raising.exc = "UpstreamFailure" => log # <<>> /\ ~Ok(log[Len(log)])

\* a Reasoner failure two levels down has reached the top-level caller
C10_Witness ==
    /\ outcome.kind = "raised"
    /\ outcome.error.exc = "UpstreamFailure"
    /\ outcome.error.op = "reason"
    /\ Len(outcome.error.path) = 2
    /\ outcome.error.path[1] = 1

\* ---------------------------------------------------------------- knowledge
\* C11: add_knowledge(x) on knowledge K leaves K with x added when x is a
\* string, the union of K and x when x is a set of strings, and otherwise
\* raises ValueError and leaves K.
C11_AddKnowledge ==
    added # None =>
      /\ added.arg.kind = "str" =>
           knowledge = added.before \cup {added.arg.val} /\ added.exc = None
      /\ added.arg.kind = "set" =>
           knowledge = added.before \cup added.arg.val /\ added.exc = None
      /\ added.arg.kind \notin {"str", "set"} =>
           /\ knowledge = added.before
           /\ added.exc # None
           /\ added.exc.exc = "ValueError"

\* C12: a second add_knowledge(s) with the same string s leaves the
\* knowledge set as the first left it (same members, same size), and no
\* add_knowledge call removes a member.
C12_AddKnowledgeIdempotent ==
    [][/\ knowledge \subseteq knowledge'
       /\ (added # None /\ added.arg.kind = "str" /\ added'.arg = added.arg) =>
            /\ knowledge' = knowledge
            /\ Cardinality(knowledge') = Cardinality(knowledge)]_vars

\* the same string has just been added a second time to a set holding others
C12_Witness ==
    /\ added # None
    /\ added.arg.kind = "str"
    /\ added.arg.val \in added.before
    /\ knowledge = added.before
    /\ Cardinality(knowledge) > 1

\* ---------------------------------------------------------------- synthesis
\* the Plan.execute calls of solve_dynamically
Syntheses == {i \in Events({"execute"}) : "children" \in DOMAIN log[i]}

\* the pairs of sub-plans 1..n of the invocation `path`, from what their
\* recursive calls returned
PairsBelow(path, n) ==
    [j \in 1..n |-> <<SubAsk(CallOf(path).problem, j), ReturnOf(Append(path, j))>>]

\* the sibling context the caller of invocation c passed in: None when none
\* was passed, the direct caller's list, or the pairs of the earlier siblings
ContextOf(c) ==
    IF c.other = None THEN None
    ELSE IF c.from = "caller" THEN CallerPairs
    ELSE PairsBelow(c.parent, c.path[Len(c.path)] - 1)

\* C13 as stated: execute gets the sibling context the caller passed in, and
\* the empty sequence for a top-level call made without sibling context.
C13_ExecuteGetsCallerContext ==
    \A i \in Syntheses :
      LET c == CallOf(log[i].path) IN
      log[i].other = (IF c.other = None THEN <<>> ELSE ContextOf(c))

\* C13 amended: execute gets the sibling context the caller passed in (the
\* pairs of the earlier siblings of the enclosing level, never the pairs of
\* its own children); for a call made without sibling context it gets None,
\* not an empty sequence; the children's results reach execute through the
\* plan's sub-plan tasks, in sub_plans order.
C13_ExecuteGetsCallerContextOrNone ==
    \A i \in Syntheses :
      LET c == CallOf(log[i].path) IN
      /\ log[i].other = ContextOf(c)
      /\ c.from # "solve_dynamically" /\ c.other = None => log[i].other = None
      /\ log[i].children = PairsBelow(c.path, log[i].plan.n)

\* a second sub-plan has decomposed and executed its plan with the first
\* sub-plan's pair as other_results and its own child's pair in the plan
C13_Witness ==
    \E i \in Syntheses :
      /\ log[i].path = <<2>>
      /\ log[i].ok
      /\ Len(log[i].other) = 1
      /\ Len(log[i].children) > 0

\* ---------------------------------------------------------------- the Reasoner's verdict
PlannerOps == {"max_depth", "one_fewer_level_deep", "plan"}

\* C16: an invocation whose Reasoner left a status other than
\* NEEDING_DECOMPOSITION makes no Planner call (not even a max_depth read),
\* no recursive call and no Plan.execute call, returns the Reasoner's
\* result and leaves the status as it is.
C16_ResolvedMeansNoPlanner ==
    \A i \in Calls :
      LET c == log[i]
          t == InvTask(c.path)
      IN (t \in DOMAIN tasks /\ tasks[t].status \notin {CREATED, NEEDING_DECOMPOSITION, DONE}) =>
           /\ EventsAt(c.path, PlannerOps \cup {"execute"}) = {}
           /\ ChildCalls(c.path) = {}
           /\ tasks[t].result = ReasonText(c.problem)
           /\ \A j \in EventsAt(c.path, {"return"}) :
                 log[j].value = ReasonText(c.problem) /\ log[j].status = tasks[t].status

\* an invocation with depth left has returned the Reasoner's RESOLVED result
C16_Witness ==
    \E i \in Calls :
      /\ HasPlanner(log[i]) /\ DepthOf(log[i]) > 0
      /\ \E j \in EventsAt(log[i].path, {"return"}) : log[j].status = RESOLVED

\* C18: every invocation calls Reasoner.reason once, on the fresh Task it
\* created, still CREATED, and before any Planner call of that invocation;
\* no Task is reasoned on twice.
C18_ReasonOncePerTask ==
    /\ \A j \in Events({"reason"}) :
          /\ log[j].before = CREATED
          /\ log[j].task = InvTask(log[j].path)
          /\ \A k \in Events({"reason"}) : log[k].task = log[j].task => k = j
    /\ \A i \in Calls :
          LET c == log[i] IN
          /\ \A j \in EventsAt(c.path, {"reason"}) : j > i /\ log[j].ask = c.problem
          /\ \A j \in EventsAt(c.path, PlannerOps \cup {"execute", "return"}) :
                \E k \in EventsAt(c.path, {"reason"}) : k < j /\ log[k].ok
          /\ \A j \in ChildCalls(c.path) :
                \E k \in EventsAt(c.path, {"reason"}) : k < j

\* a recursive invocation that decomposed has returned
C18_Witness ==
    \E i \in Calls :
      /\ log[i].from = "solve_dynamically"
      /\ EventsAt(log[i].path, {"return"}) # {}
      /\ EventsAt(log[i].path, {"plan"}) # {}
      /\ Cardinality(EventsAt(log[i].path, {"reason"})) = 1

\* C19: solve_dynamically without a planner override on an Agent without a
\* planner returns the Reasoner's result when the Reasoner does not ask for
\* decomposition, and fails (None has no max_depth) when it does.
C19_NoPlannerAtAll ==
    (entry = "solve_dynamically" /\ self_planner = None /\ planner_arg = None) =>
      /\ EventsAt(<<>>, {"one_fewer_level_deep", "plan", "execute"}) = {}
      /\ ChildCalls(<<>>) = {}
      /\ Returned => /\ tasks[TopTask].status = RESOLVED
                     /\ outcome.value = ReasonText(Problem)
                     /\ EventsAt(<<>>, {"max_depth"}) = {}
      /\ (TopTask \in DOMAIN tasks /\ tasks[TopTask].status = NEEDING_DECOMPOSITION) =>
            /\ ~Returned
            /\ Finished => RaisedExc("AttributeError")
      /\ RaisedExc("AttributeError") => tasks[TopTask].status = NEEDING_DECOMPOSITION

\* the call has failed on the missing planner
C19_Witness ==
    /\ entry = "solve_dynamically" /\ self_planner = None /\ planner_arg = None
    /\ RaisedExc("AttributeError")
    /\ tasks[TopTask].status = NEEDING_DECOMPOSITION

\* ---------------------------------------------------------------- the Agent's fields
\* C14: no step of solve or solve_dynamically changes the Agent's resources,
\* knowledge, planner or reasoner: at every step of a call, in every
\* dispatch row and at every depth, each is what it was before the step, and
\* so what it was before the call.
C14_AgentFieldsUnchanged ==
    [][/\ resources' = resources
       /\ knowledge' = knowledge
       /\ self_planner' = self_planner
       /\ reasoner' = reasoner]_vars

\* a call that decomposed, with knowledge and resources on the Agent, is over
C14_Witness ==
    /\ Finished
    /\ ChildCalls(<<>>) # {}
    /\ knowledge # {}
    /\ resources # {}
    /\ self_planner # None

\* ---------------------------------------------------------------- one sub-plan at a time
\* the read of sub-plan j's returned result into its task, at level `path`
ReadsOf(path, j) == {i \in EventsAt(path, {"read_result"}) : log[i].task = SubTask(path, j)}

\* everything the invocation `path` and its descendants did
Below(path) == {i \in 1..Len(log) : IsPrefix(path, log[i].path)}

\* C17: at one level the sub-plans are resolved one at a time in sub_plans
\* order: before the recursive call for sub-plan j starts, the call for
\* sub-plan j-1 and everything below it is over and its task holds the
\* returned result with status DONE; Plan.execute of the level is invoked
\* once, and only after every sub-plan's task is DONE.
C17_SubPlansInOrder ==
    /\ \A i \in Calls :
         LET c == log[i]
             j == c.path[Len(c.path)]
             prev == Append(c.parent, j - 1)
         IN (c.from = "solve_dynamically" /\ j > 1) =>
              /\ \E k \in Calls : k < i /\ log[k].path = prev
              /\ \A k \in Below(prev) : k < i
              /\ \E r \in EventsAt(prev, {"return"}) :
                   \E d \in ReadsOf(c.parent, j - 1) :
                     /\ r < d /\ d < i
                     /\ log[d].status = DONE
                     /\ log[d].value = log[r].value
              /\ tasks[SubTask(c.parent, j - 1)].status = DONE
              /\ tasks[SubTask(c.parent, j - 1)].result = ReturnOf(prev)
    /\ \A i \in Calls :
         LET c == log[i] IN
         (c.from = "solve_dynamically" /\ c.path[Len(c.path)] = 1) =>
              \A k \in ChildCalls(c.parent) : k >= i
    /\ \A e \in Syntheses :
         LET q == log[e].path IN
         /\ \A f \in Syntheses : log[f].path = q => f = e
         /\ Cardinality(ChildCalls(q)) = log[e].plan.n
         /\ \A j \in 1..log[e].plan.n :
              /\ \E d \in ReadsOf(q, j) : d < e /\ log[d].status = DONE
              /\ tasks[SubTask(q, j)].status = DONE
         /\ \A k \in Below(q) : log[k].path # q => k < e
    /\ \A i \in Calls :
         LET q == log[i].path IN
         (EventsAt(q, {"return"}) # {} /\ \E k \in EventsAt(q, {"plan"}) : log[k].ok) =>
              Cardinality({e \in Syntheses : log[e].path = q}) = 1

\* a level with three sub-plans has executed its plan
C17_Witness ==
    \E e \in Syntheses :
      /\ log[e].plan.n = 3
      /\ log[e].ok
      /\ Cardinality(ChildCalls(log[e].path)) = 3

\* ---------------------------------------------------------------- BaseAdapter
\* the list a read of backends yields on an adapter storing `stored`
Enumerated(stored) == backends(stored).value.items

\* C15: facts, inferencers, heuristics and the select_ operations return the
\* list holding, for each backend in order, what that backend returns for
\* the operation: one entry per backend.
C15_ListingPerBackend ==
    (answered # None /\ answered.op \in ListOps /\ answered.exc = None) =>
      /\ answered.value # None
      /\ Len(answered.value.items) = Len(Enumerated(answered.before))
      /\ \A i \in 1..Len(Enumerated(answered.before)) :
            answered.value.items[i] = BackendListing(answered.op, Enumerated(answered.before)[i])

\* the stored list is missing or empty
NoneStored(stored) == stored = None \/ Len(stored.items) = 0

\* C20: a read of backends never yields a missing or empty list: a missing
\* or empty stored list is replaced by one default TextBackend, a non-empty
\* one is returned as it is; add_backend(b) therefore leaves
\* [default TextBackend, b] on an adapter without backends, and every
\* operation that reads backends leaves a non-empty list stored.
C20_BackendsNeverEmpty ==
    answered # None =>
      /\ answered.op = "backends" =>
           /\ answered.value # None
           /\ Len(answered.value.items) > 0
           /\ _backends = answered.value
           /\ NoneStored(answered.before) => answered.value = List(<<DefaultBackend>>)
           /\ ~NoneStored(answered.before) => answered.value = answered.before
      /\ answered.op = "add_backend" =>
           /\ NoneStored(answered.before) =>
                _backends = List(<<DefaultBackend, answered.arg>>)
           /\ ~NoneStored(answered.before) =>
                _backends = List(Append(answered.before.items, answered.arg))
      /\ answered.op = "backends.setter" => _backends = answered.arg
      /\ answered.op \in {"query"} \cup ListOps =>
           /\ NoneStored(answered.before) => _backends = List(<<DefaultBackend>>)
           /\ ~NoneStored(answered.before) => _backends = answered.before
      /\ answered.op # "backends.setter" => ~NoneStored(_backends)

\* add_backend on an adapter whose list had been set to the empty list
C20_Witness ==
    /\ answered # None
    /\ answered.op = "add_backend"
    /\ answered.before = List(<<>>)
    /\ _backends = List(<<DefaultBackend, LoudBackend>>)

====
